---------------------------- MODULE Spec2Model ----------------------------
(***************************************************************************)
(* A model of svirl's solver facade (svirl/solvers/solvers.py, class       *)
(* Solvers) and of its grid / material-tiling engine (svirl/mesh/grid.py,  *)
(* class Grid).                                                            *)
(*                                                                         *)
(* Python values are records [k |-> class name, v |-> literal text], so    *)
(* that isinstance() is a test on k and two values are equal iff they are  *)
(* the same literal of the same class.                                     *)
(***************************************************************************)
EXTENDS Integers, Sequences, FiniteSets, TLC

VARIABLES
    _td,                      \* Solvers._td: None or the TD engine object
    _cg,                      \* Solvers._cg: None or the CG engine object
    detected_vortices_status, \* Solvers.__detected_vortices_status
    constructed,              \* how many TD / CG objects have been constructed
    field_mutated,            \* the field was changed by a solve since the
                              \* status was last set to True
    events,                   \* engine constructions / solves of the last call
    last                      \* the last public operation: its arguments, the
                              \* exception it ended with and the state before it

solverVars == <<_td, _cg, detected_vortices_status, constructed,
                field_mutated, events, last>>

VARIABLES
    _mt,                    \* Grid._mt: <<>> (None) or <<the mask GArray>>
    __have_material_tiling, \* Grid.__have_material_tiling
    _flags,                 \* Grid._flags: the flags GArray
    launches,               \* kernel launches of the last Grid operation
    trace,                  \* buffer and kernel events of the last Grid
                            \* operation, in order
    launch_failed,          \* some kernel launch has raised since construction
    glast                   \* the last Grid operation, as for last

gridVars ==
    <<_mt, __have_material_tiling, _flags, launches, trace, launch_failed,
      glast>>

vars == <<solverVars, gridVars>>

---------------------------------------------------------------------------
(* Python values *)

PyNone == [k |-> "NoneType", v |-> "None"]
PyTrue == [k |-> "bool", v |-> "True"]
PyFalse == [k |-> "bool", v |-> "False"]
PyInt(s) == [k |-> "int", v |-> s]
PyFloat(s) == [k |-> "float", v |-> s]
PyStr(s) == [k |-> "str", v |-> s]
NpInt(s) == [k |-> "np.int64", v |-> s]
NpFloat(s) == [k |-> "np.float32", v |-> s]

\* The classes an object of class k is an instance of (bool derives from
\* int; the numpy scalars derive from np.integer / np.floating).
Bases(k) ==
    CASE k = "bool" -> {"bool", "int"}
      [] k = "np.int64" -> {"np.int64", "np.integer"}
      [] k = "np.float32" -> {"np.float32", "np.floating"}
      [] OTHER -> {k}

isinstance(x, classes) == Bases(x.k) \cap classes # {}

IntegerTypes == {"np.integer", "int"}
RealTypes == {"np.floating", "float", "np.integer", "int"}
EqnNames == {PyStr("order_parameter"), PyStr("vector_potential")}

---------------------------------------------------------------------------
(* The facade as a value, and the outcome of a method: the facade after    *)
(* it and the exception it raised ("" when it returned).                   *)

Facade ==
    [td |-> _td, cg |-> _cg, status |-> detected_vortices_status,
     n |-> constructed, mutated |-> field_mutated, ev |-> <<>>]

Returns(st) == [st |-> st, exc |-> ""]
Raises(st, e) == [st |-> st, exc |-> e]

Engine(cls, i) == [k |-> cls, v |-> ToString(i)]

\* Solvers.__init__
Solvers_init ==
    [td |-> PyNone, cg |-> PyNone, status |-> PyFalse,
     n |-> [TD |-> 0, CG |-> 0], mutated |-> FALSE, ev |-> <<>>]

\* vortices_detected (getter)
vortices_detected(st) == st.status

\* The setter without its assertion
vortices_detected_setter_unchecked(st, status) ==
    Returns([st EXCEPT !.status = status,
                       !.mutated = IF status = PyTrue THEN FALSE ELSE @])

\* vortices_detected (setter).  Storing True records a detection run, after
\* which no solve has yet changed the field.
vortices_detected_setter(st, status) ==
    IF ~isinstance(status, {"bool"})
    THEN Raises(st, "AssertionError")
    ELSE Returns([st EXCEPT !.status = status,
                            !.mutated = IF status = PyTrue THEN FALSE ELSE @])

\* TD(...) / CG(...): the engine constructors
NewEngine(st, cls) ==
    [st EXCEPT !.n[cls] = @ + 1,
               !.ev = Append(@, [ev |-> "construct", eng |-> cls,
                                 obj |-> Engine(cls, st.n[cls] + 1),
                                 args |-> <<>>])]

\* _init_td without its "is None" guard
_init_td_always(st) ==
    [NewEngine(st, "TD") EXCEPT !.td = Engine("TD", st.n.TD + 1)]

_init_td(st) ==
    IF st.td = PyNone
    THEN [NewEngine(st, "TD") EXCEPT !.td = Engine("TD", st.n.TD + 1)]
    ELSE st

_init_cg(st) ==
    IF st.cg = PyNone
    THEN [NewEngine(st, "CG") EXCEPT !.cg = Engine("CG", st.n.CG + 1)]
    ELSE st

\* TD._solve / CG._solve on engine object obj.  The engines are external:
\* a solve returns after changing the field ("ok"), or raises before any
\* change ("raise_clean") or after some steps changed it ("raise_dirty").
EngineOutcomes == {"ok", "raise_clean", "raise_dirty"}

_solve(st, obj, args, eng) ==
    LET s1 == [st EXCEPT !.ev = Append(@, [ev |-> "solve", eng |-> obj.k,
                                           obj |-> obj, args |-> args]),
                         !.mutated = IF eng = "raise_clean" THEN @ ELSE TRUE]
    IN  IF eng = "ok" THEN Returns(s1) ELSE Raises(s1, "EngineError")

\* __solve_td constructing the engine before it validates
__solve_td_init_first(st, dt, Nt, T, dtA, NtA, TA, eqn, eng) ==
    LET s1 == _init_td(st)
    IN  IF \/ ~isinstance(Nt, IntegerTypes) \/ ~isinstance(dt, RealTypes)
           \/ ~isinstance(NtA, IntegerTypes) \/ ~isinstance(dtA, RealTypes)
           \/ (eqn # PyNone /\ eqn \notin EqnNames)
           \/ (T # PyNone /\ ~isinstance(T, RealTypes))
           \/ (TA # PyNone /\ ~isinstance(TA, RealTypes))
        THEN Raises(s1, "AssertionError")
        ELSE _solve(s1, s1.td, <<dt, Nt, T, dtA, NtA, TA, eqn>>, eng)

\* Solvers.__solve_td
__solve_td(st, dt, Nt, T, dtA, NtA, TA, eqn, eng) ==
    IF ~isinstance(Nt, IntegerTypes) THEN Raises(st, "AssertionError")
    ELSE IF ~isinstance(dt, RealTypes) THEN Raises(st, "AssertionError")
    ELSE IF ~isinstance(NtA, IntegerTypes) THEN Raises(st, "AssertionError")
    ELSE IF ~isinstance(dtA, RealTypes) THEN Raises(st, "AssertionError")
    ELSE IF eqn # PyNone /\ eqn \notin EqnNames
         THEN Raises(st, "AssertionError")
    ELSE IF T # PyNone /\ ~isinstance(T, RealTypes)
         THEN Raises(st, "AssertionError")
    ELSE IF TA # PyNone /\ ~isinstance(TA, RealTypes)
         THEN Raises(st, "AssertionError")
    ELSE LET s1 == _init_td(st)
         IN  _solve(s1, s1.td, <<dt, Nt, T, dtA, NtA, TA, eqn>>, eng)

\* __solve_cg preparing the TD engine as well
__solve_cg_inits_both(st, n_iter, eng) ==
    LET s1 == _init_td(_init_cg(st))
    IN  _solve(s1, s1.cg, <<n_iter>>, eng)

\* Solvers.__solve_cg
__solve_cg(st, n_iter, eng) ==
    LET s1 == _init_cg(st)
    IN  _solve(s1, s1.cg, <<n_iter>>, eng)

\* td passing dtA and NtA on as given
td_no_defaults(st, a, eng) ==
    LET r == __solve_td(st, a.dt, a.Nt, a.T, a.dtA, a.NtA, a.TA, a.eqn, eng)
    IN  IF r.exc # "" THEN r ELSE vortices_detected_setter(r.st, PyFalse)

\* td resetting the status also when the solve raised (try / finally)
td_reset_in_finally(st, a, eng) ==
    LET dtA == IF a.dtA = PyNone THEN a.dt ELSE a.dtA
        NtA == IF a.NtA = PyNone THEN a.Nt ELSE a.NtA
        r   == __solve_td(st, a.dt, a.Nt, a.T, dtA, NtA, a.TA, a.eqn, eng)
    IN  [st |-> vortices_detected_setter(r.st, PyFalse).st, exc |-> r.exc]

\* Solvers.td
td(st, a, eng) ==
    LET dtA == IF a.dtA = PyNone THEN a.dt ELSE a.dtA
        NtA == IF a.NtA = PyNone THEN a.Nt ELSE a.NtA
        r   == __solve_td(st, a.dt, a.Nt, a.T, dtA, NtA, a.TA, a.eqn, eng)
    IN  IF r.exc # "" THEN r ELSE vortices_detected_setter(r.st, PyFalse)

\* cg without the reset of the status
cg_no_reset(st, a, eng) == __solve_cg(st, a.n_iter, eng)

\* Solvers.cg
cg(st, a, eng) ==
    LET r == __solve_cg(st, a.n_iter, eng)
    IN  IF r.exc # "" THEN r ELSE vortices_detected_setter(r.st, PyFalse)

---------------------------------------------------------------------------
(* The calls the model makes *)

TdArgs(dt, Nt, T, dtA, NtA, TA, eqn) ==
    [dt |-> dt, Nt |-> Nt, T |-> T, dtA |-> dtA, NtA |-> NtA, TA |-> TA,
     eqn |-> eqn]

\* td(dt=0.1, Nt=1000) and a call with every argument given
BaseTd ==
    { TdArgs(PyFloat("0.1"), PyInt("1000"), PyNone, PyNone, PyNone, PyNone,
             PyNone),
      TdArgs(PyInt("2"), PyInt("1000"), PyFloat("50.0"), NpFloat("0.5"),
             NpInt("5"), PyFloat("50.0"), PyStr("vector_potential")) }

\* Calls that pass validation
GoodTd ==
    { TdArgs(dt, Nt, T, dtA, NtA, TA, eqn) :
        dt \in {PyFloat("0.1"), PyInt("2")},
        Nt \in {PyInt("1000")},
        T \in {PyNone, PyFloat("50.0")},
        dtA \in {PyNone, PyFloat("0.1"), NpFloat("0.5")},
        NtA \in {PyNone, PyInt("1000"), NpInt("5")},
        TA \in {PyNone},
        eqn \in {PyNone, PyStr("order_parameter")} } \cup BaseTd

\* Values validation rejects, per argument
BadValues ==
    [dt |-> {PyStr("0.1"), PyNone}, Nt |-> {PyFloat("1000.0"), PyNone},
     T |-> {PyStr("50")}, dtA |-> {PyStr("0.1")}, NtA |-> {PyFloat("5.0")},
     TA |-> {PyStr("50")}, eqn |-> {PyStr("invalid_value"), PyInt("1")}]

TdFields == {"dt", "Nt", "T", "dtA", "NtA", "TA", "eqn"}

AllBadValues == UNION {BadValues[h] : h \in TdFields}

\* A base call with one argument replaced by a value validation rejects
BadTd ==
    { [b EXCEPT ![f] = x] :
        <<b, f, x>> \in { <<b, f, x>> \in (BaseTd \X TdFields \X AllBadValues) :
                            x \in BadValues[f] } }

TdCalls == GoodTd \cup BadTd

CgCalls == { [n_iter |-> n] : n \in {PyInt("1000"), PyInt("500")} }

StatusValues == {PyTrue, PyFalse, PyInt("1"), PyNone, PyStr("True")}

Before(st) ==
    [td |-> st.td, cg |-> st.cg, status |-> st.status, n |-> st.n,
     mutated |-> st.mutated, ev |-> <<>>]

Commit(op, a, eng, r) ==
    /\ _td' = r.st.td
    /\ _cg' = r.st.cg
    /\ detected_vortices_status' = r.st.status
    /\ constructed' = r.st.n
    /\ field_mutated' = r.st.mutated
    /\ events' = r.st.ev
    /\ last' = [op |-> op, args |-> a, eng |-> eng, exc |-> r.exc,
                before |-> Before(Facade)]
    /\ UNCHANGED gridVars

Call_td == \E a \in TdCalls, eng \in EngineOutcomes : 
        Commit("td", a, eng, td(Facade, a, eng))

Call_cg == \E a \in CgCalls, eng \in EngineOutcomes : 
        Commit("cg", a, eng, cg(Facade, a, eng))

Set_vortices_detected ==
    \E s \in StatusValues :
        Commit("vortices_detected", [status |-> s], "",
               vortices_detected_setter(Facade, s))

SolversInit ==
    /\ _td = Solvers_init.td
    /\ _cg = Solvers_init.cg
    /\ detected_vortices_status = Solvers_init.status
    /\ constructed = Solvers_init.n
    /\ field_mutated = Solvers_init.mutated
    /\ events = Solvers_init.ev
    /\ last = [op |-> "__init__", args |-> <<>>, eng |-> "", exc |-> "",
               before |-> Before(Solvers_init)]

SolversNext == Call_td \/ Call_cg \/ Set_vortices_detected

---------------------------------------------------------------------------
(* Configuration (svirl.config): node counts, spacings in half-cell units, *)
(* and the counts and extents derived from them.                           *)

Nx == 3
Ny == 2
dx == 2
dy == 4
Nxc == Nx - 1
Nyc == Ny - 1
Lx == dx * (Nx - 1)
Ly == dy * (Ny - 1)

\* A configuration with nx-by-ny nodes spaced ddx, ddy: the edge and cell
\* counts and the extents that svirl.config derives
Config(nx, ny, ddx, ddy) ==
    [Nx |-> nx, Ny |-> ny, dx |-> ddx, dy |-> ddy,
     Nxa |-> nx - 1, Nya |-> ny, Nxb |-> nx, Nyb |-> ny - 1,
     Nxc |-> nx - 1, Nyc |-> ny - 1,
     Lx |-> ddx * (nx - 1), Ly |-> ddy * (ny - 1)]

\* The configuration of the grid whose state the model keeps
cfg == Config(Nx, Ny, dx, dy)

\* The configurations under which the lattice coordinates are read
MaxN == 4
Spacings == {2, 4}
Configs ==
    {Config(nx, ny, ddx, ddy) : nx \in 2..MaxN, ny \in 2..MaxN,
                                ddx \in Spacings, ddy \in Spacings}

---------------------------------------------------------------------------
(* numpy arrays: a dtype, a shape <<n1, n2>> and integer data (a bool      *)
(* array holds 0 / 1).                                                     *)

Indices(shape) == (1..shape[1]) \X (1..shape[2])

ndarray(dtype, shape, data) == [dtype |-> dtype, shape |-> shape, data |-> data]

full(shape, dtype, x) == ndarray(dtype, shape, [p \in Indices(shape) |-> x])

astype(a, dtype) ==
    IF dtype = "bool"
    THEN ndarray("bool", a.shape,
                 [p \in DOMAIN a.data |-> IF a.data[p] # 0 THEN 1 ELSE 0])
    ELSE ndarray(dtype, a.shape, a.data)

copy(a) == a

linspace(start, stop, num) ==
    [i \in 1..num |->
        IF num = 1 THEN start ELSE start + ((i - 1) * (stop - start)) \div (num - 1)]

\* np.meshgrid(x, y, indexing='ij')
meshgrid(x, y) ==
    LET shape == <<Len(x), Len(y)>>
    IN  << ndarray("float", shape, [p \in Indices(shape) |-> x[p[1]]]),
           ndarray("float", shape, [p \in Indices(shape) |-> y[p[2]]]) >>

\* Values assigned to Grid.material_tiling
NoTiling == [k |-> "NoneType", v |-> "None"]
Array(a) == [k |-> "ndarray", v |-> a]
Function(f) == [k |-> "function", v |-> f]
callable(x) == x.k = "function"

---------------------------------------------------------------------------
(* GArray (svirl.storage): a host copy h, a device copy d and the mark     *)
(* that d is newer than h.                                                 *)

GArray_shape(shape, dtype) ==
    [h |-> full(shape, dtype, 0), d |-> full(shape, dtype, 0), dtoh |-> FALSE]

GArray_like(a) == [h |-> a, d |-> a, dtoh |-> FALSE]

need_dtoh_sync(ga) == [ga EXCEPT !.dtoh = TRUE]

sync(ga) == IF ga.dtoh THEN [ga EXCEPT !.h = ga.d, !.dtoh = FALSE] ELSE ga

get_h(ga) == ga.h

\* Device handles: the null pointer np.uintp(0), or the buffer pointed to
NullHandle == [null |-> TRUE, buf |-> ""]
get_d_obj(name) == [null |-> FALSE, buf |-> name]

---------------------------------------------------------------------------
(* The flags kernels (par.get_function('set_flags' / 'clear_flags')).      *)
(* A cell is material unless the mask excludes it.  The flag of node       *)
(* (i, j) has bit 1 for its a-link (to node (i+1, j)), bit 2 for its       *)
(* b-link (to node (i, j+1)) and bit 4 for the node itself, each set iff   *)
(* a cell next to it is material.                                          *)

Cells == (1..Nxc) \X (1..Nyc)

Material(mask, c) == c \in Cells /\ mask[c] = 0

NodeFlag(mask, i, j) ==
      (IF i <= Nxc /\ (Material(mask, <<i, j - 1>>) \/ Material(mask, <<i, j>>))
       THEN 1 ELSE 0)
    + (IF j <= Nyc /\ (Material(mask, <<i - 1, j>>) \/ Material(mask, <<i, j>>))
       THEN 2 ELSE 0)
    + (IF \E c \in {<<i - 1, j - 1>>, <<i, j - 1>>, <<i - 1, j>>, <<i, j>>} :
             Material(mask, c)
       THEN 4 ELSE 0)

FlagsOf(mask) ==
    ndarray("int32", <<Nx, Ny>>,
            [p \in Indices(<<Nx, Ny>>) |-> NodeFlag(mask, p[1], p[2])])

AllMaterial == FlagsOf([c \in Cells |-> 0])

\* set_flags: compiles the mask into the flags; with the null handle there
\* is no mask to compile
set_flags_krnl(g, mt_h, flags_h) ==
    IF mt_h.null THEN g
    ELSE [g EXCEPT !.flags.d = FlagsOf(g.mt[1].d.data)]

\* clear_flags: resets the flags to the all-material state
clear_flags_krnl(g, mt_h, flags_h) == [g EXCEPT !.flags.d = AllMaterial]

---------------------------------------------------------------------------
(* class Grid *)

Grid ==
    [mt |-> _mt, have |-> __have_material_tiling, flags |-> _flags,
     launches |-> <<>>, trace |-> <<>>]

\* An event of the operation under way
Event(g, e) == [g EXCEPT !.trace = Append(@, e)]

have_material_tiling(g) == g.have

\* Grid.xy / Grid.xy_grid under configuration c
xy(c) == << linspace(0, c.Lx, c.Nx), linspace(0, c.Ly, c.Ny) >>

xy_grid(c) == meshgrid(xy(c)[1], xy(c)[2])

\* xy_a generated like the node lattice along x
xy_a_as_nodes(c) == << linspace(0, c.Lx, c.Nx), linspace(0, c.Ly, c.Nya) >>

\* Grid.xy_a / Grid.xy_a_grid
xy_a(c) ==
    << linspace(c.dx \div 2, c.Lx - c.dx \div 2, c.Nxa),
       linspace(0, c.Ly, c.Nya) >>

xy_a_grid(c) == meshgrid(xy_a(c)[1], xy_a(c)[2])

\* Grid.xy_b / Grid.xy_b_grid
xy_b(c) ==
    << linspace(0, c.Lx, c.Nxb),
       linspace(c.dy \div 2, c.Ly - c.dy \div 2, c.Nyb) >>

xy_b_grid(c) == meshgrid(xy_b(c)[1], xy_b(c)[2])

\* Grid.xy_c / Grid.xy_c_grid
xy_c(c) ==
    << linspace(c.dx \div 2, c.Lx - c.dx \div 2, c.Nxc),
       linspace(c.dy \div 2, c.Ly - c.dy \div 2, c.Nyc) >>

xy_c_grid(c) == meshgrid(xy_c(c)[1], xy_c(c)[2])

\* __free_mt leaving the flag set
__free_mt_keep_flag(g) ==
    IF g.mt # <<>> THEN [Event(g, "free") EXCEPT !.mt = <<>>] ELSE g

\* __free_mt without its "is not None" guard
__free_mt_unguarded(g) == [Event(g, "free") EXCEPT !.mt = <<>>, !.have = FALSE]

\* Grid.__free_mt
__free_mt(g) ==
    IF g.mt # <<>>
    THEN [Event(g, "free") EXCEPT !.mt = <<>>, !.have = FALSE]
    ELSE g

\* Grid.material_tiling_h
material_tiling_h(g) == IF g.mt # <<>> THEN get_d_obj("_mt") ELSE NullHandle

\* Grid._flags_h
_flags_h(g) == get_d_obj("_flags")

\* A kernel launch with the handles the caller evaluated; the launch named
\* by fail raises and runs nothing.
Launch(g, krnl, fail) ==
    LET mt_h == material_tiling_h(g)
        g1 == [Event(g, krnl) EXCEPT !.launches =
                  Append(@, [krnl |-> krnl, mt_h |-> mt_h,
                             flags_h |-> _flags_h(g),
                             have |-> have_material_tiling(g)])]
    IN  IF fail = krnl THEN Raises(Event(g1, "LaunchError"), "LaunchError")
        ELSE IF krnl = "set_flags"
             THEN Returns(set_flags_krnl(g1, mt_h, _flags_h(g)))
             ELSE Returns(clear_flags_krnl(g1, mt_h, _flags_h(g)))

\* self._flags.need_dtoh_sync(); self._flags.sync()
MarkAndSync(g) ==
    LET g1 == [Event(g, "need_dtoh_sync") EXCEPT !.flags = need_dtoh_sync(@)]
    IN  [Event(g1, "sync") EXCEPT !.flags = sync(@)]

\* _set_flags without the synchronisation to the host
_set_flags_no_sync(g, fail) ==
    LET r == Launch(g, "set_flags", fail)
    IN  IF r.exc # "" THEN r
        ELSE Returns([Event(r.st, "need_dtoh_sync") EXCEPT
                        !.flags = need_dtoh_sync(@)])

\* Grid._set_flags
_set_flags(g, fail) ==
    LET r == Launch(g, "set_flags", fail)
    IN  IF r.exc # "" THEN r ELSE Returns(MarkAndSync(r.st))

\* _clear_flags launching the set_flags kernel
_clear_flags_as_set(g, fail) == _set_flags(g, fail)

\* Grid._clear_flags
_clear_flags(g, fail) ==
    LET r == Launch(g, "clear_flags", fail)
    IN  IF r.exc # "" THEN r ELSE Returns(MarkAndSync(r.st))

\* Grid.material_tiling (getter): the facade after it and the value returned
material_tiling(g) ==
    LET g1 == [Event(g, "sync") EXCEPT !.flags = sync(@)]
    IN  [st |-> g1, exc |-> "", value |-> astype(copy(get_h(g1.flags)), "bool")]

\* The functions assigned to material_tiling, applied to the cell grids
Apply(f, xg, yg) ==
    CASE f = "left_half" ->
            Array(ndarray("bool", xg.shape,
                          [p \in DOMAIN xg.data |-> IF 2 * xg.data[p] < Lx THEN 1 ELSE 0]))
      [] f = "nothing" -> NoTiling
      [] f = "at_nodes" -> Array(full(<<Nx, Ny>>, "bool", 1))

\* The value the setter works on: a function is called on the cell grids
Resolve(material_tiling_) ==
    IF callable(material_tiling_)
    THEN Apply(material_tiling_.v, xy_c_grid(cfg)[1], xy_c_grid(cfg)[2])
    ELSE material_tiling_

is_None(x) == x.k = "NoneType"

\* The setter allocating the mask buffer before it checks the shape
material_tiling_setter_late_assert(g, material_tiling_, fail) ==
    LET mt == Resolve(material_tiling_)
        g1 == IF ~is_None(mt)
              THEN [Event(g, "alloc") EXCEPT
                      !.mt = <<GArray_like(astype(mt.v, "bool"))>>,
                      !.have = TRUE]
              ELSE g
        r1 == IF ~is_None(mt)
              THEN IF mt.v.shape # <<Nxc, Nyc>>
                   THEN Raises(g1, "AssertionError")
                   ELSE Returns(g1)
              ELSE _clear_flags(__free_mt(g), fail)
        r2 == IF r1.exc # "" THEN r1 ELSE _set_flags(r1.st, fail)
    IN  IF r2.exc # "" THEN r2 ELSE Returns(__free_mt(r2.st))

\* The setter running the set-flags kernel only for a mask
material_tiling_setter_set_if_mask(g, material_tiling_, fail) ==
    LET mt == Resolve(material_tiling_)
        r1 == IF ~is_None(mt)
              THEN IF mt.v.shape # <<Nxc, Nyc>>
                   THEN Raises(g, "AssertionError")
                   ELSE Returns([Event(g, "alloc") EXCEPT
                                   !.mt = <<GArray_like(astype(mt.v, "bool"))>>,
                                   !.have = TRUE])
              ELSE _clear_flags(__free_mt(g), fail)
        r2 == IF r1.exc # "" \/ is_None(mt) THEN r1 ELSE _set_flags(r1.st, fail)
    IN  IF r2.exc # "" THEN r2 ELSE Returns(__free_mt(r2.st))

\* The setter without its final __free_mt
material_tiling_setter_keep_mt(g, material_tiling_, fail) ==
    LET mt == Resolve(material_tiling_)
        r1 == IF ~is_None(mt)
              THEN IF mt.v.shape # <<Nxc, Nyc>>
                   THEN Raises(g, "AssertionError")
                   ELSE Returns([Event(g, "alloc") EXCEPT
                                   !.mt = <<GArray_like(astype(mt.v, "bool"))>>,
                                   !.have = TRUE])
              ELSE _clear_flags(__free_mt(g), fail)
    IN  IF r1.exc # "" THEN r1 ELSE _set_flags(r1.st, fail)

\* The setter freeing the mask buffer before it sets the flags
material_tiling_setter_free_first(g, material_tiling_, fail) ==
    LET mt == Resolve(material_tiling_)
        r1 == IF ~is_None(mt)
              THEN IF mt.v.shape # <<Nxc, Nyc>>
                   THEN Raises(g, "AssertionError")
                   ELSE Returns([Event(g, "alloc") EXCEPT
                                   !.mt = <<GArray_like(astype(mt.v, "bool"))>>,
                                   !.have = TRUE])
              ELSE _clear_flags(__free_mt(g), fail)
    IN  IF r1.exc # "" THEN r1 ELSE _set_flags(__free_mt(r1.st), fail)

\* Grid.material_tiling (setter)
material_tiling_setter(g, material_tiling_, fail) ==
    LET mt == Resolve(material_tiling_)
        r1 == IF ~is_None(mt)
              THEN IF mt.v.shape # <<Nxc, Nyc>>
                   THEN Raises(g, "AssertionError")
                   ELSE Returns([Event(g, "alloc") EXCEPT
                                   !.mt = <<GArray_like(astype(mt.v, "bool"))>>,
                                   !.have = TRUE])
              ELSE _clear_flags(__free_mt(g), fail)
        r2 == IF r1.exc # "" THEN r1 ELSE _set_flags(r1.st, fail)
    IN  IF r2.exc # "" THEN r2 ELSE Returns(__free_mt(r2.st))

\* Grid.__del__
__del__(g) == Returns(__free_mt(g))

\* np.r_[a, b] and np.c_[a, b]: b after a along the first / second axis
np_r(a, b) ==
    LET shape == <<a.shape[1] + b.shape[1], a.shape[2]>>
    IN  ndarray(a.dtype, shape,
                [p \in Indices(shape) |->
                    IF p[1] <= a.shape[1] THEN a.data[p]
                    ELSE b.data[<<p[1] - a.shape[1], p[2]>>]])

np_c(a, b) ==
    LET shape == <<a.shape[1], a.shape[2] + b.shape[2]>>
    IN  ndarray(a.dtype, shape,
                [p \in Indices(shape) |->
                    IF p[2] <= a.shape[2] THEN a.data[p]
                    ELSE b.data[<<p[1], p[2] - a.shape[2]>>]])

\* np.logical_or.reduce over a tuple of arrays of one shape
logical_or_reduce(arrays) ==
    ndarray("bool", arrays[1].shape,
            [p \in Indices(arrays[1].shape) |->
                IF \E i \in 1..Len(arrays) : arrays[i].data[p] # 0
                THEN 1 ELSE 0])

\* _get_material_tiling_at_nodes testing for the buffer first
_get_material_tiling_at_nodes_checked(g) ==
    [st |-> g, exc |-> "ValueError", value |-> <<>>]

\* Grid._get_material_tiling_at_nodes
_get_material_tiling_at_nodes(g) ==
    IF g.mt = <<>>
    THEN [st |-> g, exc |-> "AttributeError", value |-> <<>>]
    ELSE LET mt == get_h(g.mt[1])
             mt_c == full(<<1, Nyc>>, "bool", 0)
             mt_r == full(<<Nx, 1>>, "bool", 0)
         IN  [st |-> g, exc |-> "",
              value |-> << logical_or_reduce(<<
                              np_c(mt_r, np_r(mt_c, mt)),
                              np_c(mt_r, np_r(mt, mt_c)),
                              np_c(np_r(mt_c, mt), mt_r),
                              np_c(np_r(mt, mt_c), mt_r) >>) >>]

\* Grid.__init__ with cfg.material_tiling = m
Grid_fresh ==
    [mt |-> <<>>, have |-> FALSE,
     flags |-> GArray_shape(<<Nx, Ny>>, "int32"), launches |-> <<>>,
     trace |-> <<>>]

Grid_init(m) == material_tiling_setter(Grid_fresh, m, "")

---------------------------------------------------------------------------
(* The Grid operations the model makes *)

Masks(dtype, shape, values) ==
    { ndarray(dtype, shape, data) : data \in [Indices(shape) -> values] }

Tilings ==
    {NoTiling}
    \cup { Array(a) : a \in Masks("bool", <<Nxc, Nyc>>, {0, 1}) }
    \cup { Array(full(<<Nxc, Nyc>>, "int32", 2)) }
    \cup { Array(full(shape, "bool", x)) :
              shape \in {<<Nxc + 1, Nyc>>, <<Nxc, Nyc + 1>>, <<Nx, Ny>>},
              x \in {0, 1} }
    \cup { Function(f) : f \in {"left_half", "nothing", "at_nodes"} }

LaunchFailures == {"", "clear_flags", "set_flags"}

GCommit(op, a, fail, r, value) ==
    /\ glast.op # "__del__"
    /\ _mt' = r.st.mt
    /\ __have_material_tiling' = r.st.have
    /\ _flags' = r.st.flags
    /\ launches' = r.st.launches
    /\ trace' = r.st.trace
    /\ launch_failed' = (launch_failed \/ r.exc = "LaunchError")
    /\ glast' = [op |-> op, args |-> a, fail |-> fail, exc |-> r.exc,
                 before |-> Grid, value |-> value]
    /\ UNCHANGED solverVars

Set_material_tiling ==
    \E m \in Tilings, fail \in LaunchFailures :
        GCommit("material_tiling.setter", m, fail,
                material_tiling_setter(Grid, m, fail), <<>>)

Get_material_tiling ==
    GCommit("material_tiling", NoTiling, "", material_tiling(Grid),
            <<material_tiling(Grid).value>>)

Get_material_tiling_at_nodes ==
    GCommit("_get_material_tiling_at_nodes", NoTiling, "",
            _get_material_tiling_at_nodes(Grid),
            _get_material_tiling_at_nodes(Grid).value)

Del_grid == GCommit("__del__", NoTiling, "", __del__(Grid), <<>>)

GridInit ==
    \E m \in Tilings :
        LET r == Grid_init(m)
        IN  /\ r.exc = ""
            /\ _mt = r.st.mt
            /\ __have_material_tiling = r.st.have
            /\ _flags = r.st.flags
            /\ launches = r.st.launches
            /\ trace = r.st.trace
            /\ launch_failed = FALSE
            /\ glast = [op |-> "__init__", args |-> m, fail |-> "", exc |-> "",
                        before |-> Grid_fresh,
                        value |-> <<>>]

GridNext ==
    \/ Set_material_tiling
    \/ Get_material_tiling
    \/ Get_material_tiling_at_nodes
    \/ Del_grid

\* Reads of the lattice properties; they touch no state of the grid
ReadLattice(op, c, value) ==
    /\ glast.op # "__del__"
    /\ glast' = [op |-> op, args |-> c, fail |-> "", exc |-> "",
                 before |-> Grid, value |-> <<value>>]
    /\ UNCHANGED <<_mt, __have_material_tiling, _flags, launches, trace,
                   launch_failed>>
    /\ UNCHANGED solverVars

Get_xy == \E c \in Configs : ReadLattice("xy", c, xy(c))

Get_xy_a == \E c \in Configs : ReadLattice("xy_a", c, xy_a(c))

Get_xy_b == \E c \in Configs : ReadLattice("xy_b", c, xy_b(c))

Get_xy_c == \E c \in Configs : ReadLattice("xy_c", c, xy_c(c))

LatticeNext == Get_xy \/ Get_xy_a \/ Get_xy_b \/ Get_xy_c

---------------------------------------------------------------------------
(* Specifications: the facade alone (with a default grid), the grid alone  *)
(* (with a fresh facade), the reads of the lattice properties alone, and   *)
(* all of them together.                                                   *)

DefaultGrid ==
    /\ _mt = Grid_init(NoTiling).st.mt
    /\ __have_material_tiling = Grid_init(NoTiling).st.have
    /\ _flags = Grid_init(NoTiling).st.flags
    /\ launches = Grid_init(NoTiling).st.launches
    /\ trace = Grid_init(NoTiling).st.trace
    /\ launch_failed = FALSE
    /\ glast = [op |-> "__init__", args |-> NoTiling, fail |-> "", exc |-> "",
                before |-> Grid_fresh,
                value |-> <<>>]

SolversOnlyInit == SolversInit /\ DefaultGrid

SolversSpec == SolversOnlyInit /\ [][SolversNext]_vars

GridOnlyInit == GridInit /\ SolversInit

GridSpec == GridOnlyInit /\ [][GridNext]_vars

LatticeOnlyInit == SolversInit /\ DefaultGrid

LatticeSpec == LatticeOnlyInit /\ [][LatticeNext]_vars

Init == SolversInit /\ GridInit

Next == SolversNext \/ GridNext \/ LatticeNext

Spec == Init /\ [][Next]_vars

---------------------------------------------------------------------------
(* Claims about the solver facade *)

Now == [Facade EXCEPT !.ev = events]

\* C1: after a td or cg call that returned, reading vortices_detected
\* gives False, whatever the status was before the call.
C1_SolveResetsStatus ==
    (last.op \in {"td", "cg"} /\ last.exc = "")
        => vortices_detected(Now) = PyFalse

C1_Witness ==
    /\ last.op = "cg"
    /\ last.args.n_iter = PyInt("500")
    /\ last.exc = ""
    /\ last.before.status = PyTrue
    /\ vortices_detected(Now) = PyFalse

\* C2: the status is False whenever a td or cg solve has changed the field
\* since the status was last set to True.
C2_NeverCurrentAfterSolve ==
    field_mutated => vortices_detected(Now) = PyFalse

\* The arguments the claim C3 calls invalid (dtA and NtA may be left unset)
C3_FailsValidation(a) ==
    \/ ~isinstance(a.Nt, IntegerTypes)
    \/ (a.NtA # PyNone /\ ~isinstance(a.NtA, IntegerTypes))
    \/ ~isinstance(a.dt, RealTypes)
    \/ (a.dtA # PyNone /\ ~isinstance(a.dtA, RealTypes))
    \/ (a.T # PyNone /\ ~isinstance(a.T, RealTypes))
    \/ (a.TA # PyNone /\ ~isinstance(a.TA, RealTypes))
    \/ (a.eqn # PyNone /\ a.eqn \notin EqnNames)

\* C3: a td call whose arguments fail validation is rejected with no engine
\* constructed, no solve invoked, and both slots and the status as before.
C3_RejectedTdChangesNothing ==
    (last.op = "td" /\ C3_FailsValidation(last.args))
        => /\ last.exc = "AssertionError"
           /\ events = <<>>
           /\ Now = last.before

C3_Witness ==
    /\ last.op = "td"
    /\ last.args.eqn = PyStr("invalid_value")
    /\ last.exc = "AssertionError"
    /\ last.before.status = PyTrue
    /\ _td = PyNone
    /\ _cg # PyNone

\* C4: a slot that holds an engine keeps that very engine; each engine
\* class is constructed at most once, by the first call of its slot that
\* passes validation; a later call constructs nothing and solves on the
\* engine the slot already held.
C4_SlotsOnlyActivate ==
    /\ [](/\ constructed.TD = (IF _td = PyNone THEN 0 ELSE 1)
          /\ constructed.CG = (IF _cg = PyNone THEN 0 ELSE 1)
          /\ (last.op = "td" /\ last.exc # "AssertionError") => _td # PyNone
          /\ last.op = "cg" => _cg # PyNone
          /\ \A i \in 1..Len(events) :
                /\ events[i].ev = "construct"
                       => last.before[IF events[i].eng = "TD" THEN "td" ELSE "cg"] = PyNone
                /\ events[i].ev = "solve"
                       => events[i].obj = (IF events[i].eng = "TD" THEN _td ELSE _cg))
    /\ [][/\ _td # PyNone => _td' = _td
          /\ _cg # PyNone => _cg' = _cg]_vars

C4_Witness ==
    /\ last.op = "td"
    /\ last.before.td # PyNone
    /\ _td = last.before.td
    /\ Len(events) = 1
    /\ events[1].ev = "solve"
    /\ events[1].obj = last.before.td

C10_StatusSetter ==
    last.op = "vortices_detected"
        => IF last.args.status \in {PyTrue, PyFalse}
           THEN /\ last.exc = ""
                /\ detected_vortices_status = last.args.status
                /\ vortices_detected(Now) = last.args.status
           ELSE /\ last.exc = "AssertionError"
                /\ detected_vortices_status = last.before.status

C10_Witness ==
    /\ last.op = "vortices_detected"
    /\ last.args.status = PyInt("1")
    /\ last.exc = "AssertionError"
    /\ last.before.status = PyTrue
    /\ vortices_detected(Now) = PyTrue

\* The engine slot a solve entry point works on, now and before the call
Slot(op) == IF op = "td" THEN _td ELSE _cg

SlotBefore(op) == IF op = "td" THEN last.before.td ELSE last.before.cg

EngineOf(op) == IF op = "td" THEN "TD" ELSE "CG"

\* C18: when the delegated engine solve raises, td / cg lets the failure
\* through without touching vortices_detected (it keeps the value it had,
\* True included), and the engine stays in its slot: the one already
\* there, or the one this call constructed.
C18_FailedSolveKeepsStatusAndEngine ==
    (last.op \in {"td", "cg"} /\ last.exc = "EngineError")
        => /\ detected_vortices_status = last.before.status
           /\ Slot(last.op) # PyNone
           /\ Slot(last.op) =
                 IF SlotBefore(last.op) = PyNone
                 THEN Engine(EngineOf(last.op), 1)
                 ELSE SlotBefore(last.op)
           /\ events[Len(events)].ev = "solve"
           /\ events[Len(events)].obj = Slot(last.op)

C18_Witness ==
    /\ last.op = "td"
    /\ last.exc = "EngineError"
    /\ last.before.status = PyTrue
    /\ last.before.td = PyNone
    /\ _td = Engine("TD", 1)
    /\ detected_vortices_status = PyTrue

\* C20: a td call, successful or not, neither constructs nor replaces nor
\* invokes the CG engine and leaves the CG slot as it was; a cg call does
\* the same for the TD engine and slot.
C20_SlotsIndependent ==
    /\ last.op = "td"
          => /\ _cg = last.before.cg
             /\ constructed.CG = last.before.n.CG
             /\ \A i \in 1..Len(events) : events[i].eng = "TD"
    /\ last.op = "cg"
          => /\ _td = last.before.td
             /\ constructed.TD = last.before.n.TD
             /\ \A i \in 1..Len(events) : events[i].eng = "CG"

C20_Witness ==
    /\ last.op = "cg"
    /\ last.exc = ""
    /\ last.before.td = Engine("TD", 1)
    /\ last.before.cg = PyNone
    /\ _td = Engine("TD", 1)
    /\ _cg = Engine("CG", 1)

---------------------------------------------------------------------------
(* Claims about the grid *)

GNow == Grid

\* C6: between Grid operations and at every kernel launch,
\* material_tiling_h() is the null handle iff have_material_tiling() is
\* False, i.e. the mask buffer exists iff the flag is True.
C6_NullHandleIffNoTiling ==
    /\ (material_tiling_h(GNow) = NullHandle) <=> ~have_material_tiling(GNow)
    /\ (_mt # <<>>) <=> __have_material_tiling
    /\ \A i \in 1..Len(launches) :
          (launches[i].mt_h = NullHandle) <=> ~launches[i].have

C6_Witness ==
    /\ glast.op = "material_tiling.setter"
    /\ glast.exc = ""
    /\ \E i \in 1..Len(launches) :
          /\ launches[i].krnl = "set_flags"
          /\ launches[i].have
          /\ launches[i].mt_h # NullHandle
    /\ material_tiling_h(GNow) = NullHandle
    /\ ~have_material_tiling(GNow)

C7_WrongShape(m) ==
    /\ Resolve(m).k = "ndarray"
    /\ Resolve(m).v.shape # <<Nxc, Nyc>>

\* C7: setting an array (or a function returning one) whose shape is not
\* (Nxc, Nyc) fails, launches no kernel and leaves the mask buffer, the
\* flag and the flags buffer as they were.
C7_WrongShapeChangesNothing ==
    (glast.op = "material_tiling.setter" /\ C7_WrongShape(glast.args))
        => /\ glast.exc = "AssertionError"
           /\ launches = <<>>
           /\ GNow = glast.before

C7_Witness ==
    /\ glast.op = "material_tiling.setter"
    /\ glast.args = Array(full(<<Nxc + 1, Nyc>>, "bool", 1))
    /\ glast.exc = "AssertionError"
    /\ glast.before.flags.h # AllMaterial
    /\ _flags = glast.before.flags
    /\ _mt = <<>>

\* C8: a completed set of None leaves have_material_tiling() False, no
\* mask buffer and the flags in the all-material state, and setting None
\* once more changes nothing.
C8_ClearIsIdempotent ==
    (glast.op = "material_tiling.setter" /\ is_None(Resolve(glast.args))
                                          /\ glast.exc = "")
        => /\ ~have_material_tiling(GNow)
           /\ _mt = <<>>
           /\ _flags = GArray_like(AllMaterial)
           /\ LET again == material_tiling_setter(GNow, NoTiling, "")
              IN  /\ again.exc = ""
                  /\ [again.st EXCEPT !.launches = <<>>, !.trace = <<>>] = GNow

C8_Witness ==
    /\ glast.op = "material_tiling.setter"
    /\ glast.args = NoTiling
    /\ glast.exc = ""
    /\ glast.before.flags.h # AllMaterial
    /\ _flags.h = AllMaterial
    /\ ~have_material_tiling(GNow)

\* C9: the material_tiling getter returns a boolean array of the
\* cell-center shape (Nxc, Nyc).
C9_GetterCellShape ==
    glast.op = "material_tiling"
        => /\ glast.value[1].dtype = "bool"
           /\ glast.value[1].shape = <<Nxc, Nyc>>

\* The last operation was an assignment to material_tiling (by the
\* constructor or by the setter); the value it resolved to; the kernels it
\* launched, in order
Assigned == glast.op \in {"__init__", "material_tiling.setter"}

AssignedNone == is_None(Resolve(glast.args))

Kernels == [i \in 1..Len(launches) |-> launches[i].krnl]

\* C12 (as stated): within a setter call the set-flags kernel
\* is launched only if the resolved mask is not None; an explicit clear
\* launches the clear-flags kernel only.
C12_SetFlagsOnlyWithMask ==
    (Assigned /\ AssignedNone)
        => \A i \in 1..Len(launches) : launches[i].krnl # "set_flags"

\* C12 (amended): the set-flags kernel is launched by every assignment that
\* gets that far.  With a mask it is the only launch and receives the mask
\* buffer; an explicit clear launches the clear-flags kernel and then the
\* set-flags kernel with the null mask handle.
C12_SetFlagsAfterEveryAssignment ==
    Assigned =>
        /\ (~AssignedNone /\ glast.exc # "AssertionError")
              => /\ Kernels = <<"set_flags">>
                 /\ launches[1].mt_h # NullHandle
        /\ (AssignedNone /\ glast.exc = "")
              => /\ Kernels = <<"clear_flags", "set_flags">>
                 /\ launches[2].mt_h = NullHandle
        /\ (AssignedNone /\ glast.exc # "")
              => /\ glast.exc = "LaunchError"
                 /\ Kernels = IF glast.fail = "clear_flags"
                              THEN <<"clear_flags">>
                              ELSE <<"clear_flags", "set_flags">>

C12_Witness ==
    /\ glast.op = "material_tiling.setter"
    /\ glast.args = NoTiling
    /\ glast.exc = ""
    /\ Kernels = <<"clear_flags", "set_flags">>
    /\ launches[2].mt_h = NullHandle

\* C13: after a completed assignment of any value the mask buffer is
\* absent, have_material_tiling() is False and the mask handle is null;
\* when a mask was set, the buffer is freed last, after the set-flags
\* launch (which still saw it) and the synchronisation of the flags.
C13_BufferFreedAfterSet ==
    (Assigned /\ glast.exc = "")
        => /\ _mt = <<>>
           /\ ~have_material_tiling(GNow)
           /\ material_tiling_h(GNow) = NullHandle
           /\ ~AssignedNone
                 => /\ trace = <<"alloc", "set_flags", "need_dtoh_sync",
                                 "sync", "free">>
                    /\ launches[1].mt_h # NullHandle

C13_Witness ==
    /\ glast.op = "material_tiling.setter"
    /\ glast.args.k = "ndarray"
    /\ glast.exc = ""
    /\ trace[Len(trace)] = "free"
    /\ _mt = <<>>
    /\ ~__have_material_tiling

\* C14: a flags kernel launch that returns is followed at once by marking
\* the flags for a device-to-host copy and by the copy; so between Grid
\* operations no copy is pending, host and device flags agree, and the
\* getter returns what the last launch wrote.
C14_LaunchThenMarkThenSync ==
    /\ \A i \in 1..Len(trace) :
          trace[i] \in {"set_flags", "clear_flags"}
              => \/ /\ i + 1 = Len(trace)
                    /\ trace[i + 1] = "LaunchError"
                 \/ /\ i + 2 <= Len(trace)
                    /\ trace[i + 1] = "need_dtoh_sync"
                    /\ trace[i + 2] = "sync"
    /\ ~_flags.dtoh
    /\ _flags.h = _flags.d
    /\ glast.op = "material_tiling"
          => glast.value[1] = astype(_flags.d, "bool")

C14_Witness ==
    /\ glast.op = "material_tiling.setter"
    /\ glast.exc = ""
    /\ trace[2] = "set_flags" /\ trace[3] = "need_dtoh_sync" /\ trace[4] = "sync"
    /\ _flags.d # glast.before.flags.d
    /\ _flags.h = _flags.d

\* C15: the flags a completed setter call leaves are those that the same
\* value gives on a freshly constructed grid, whatever was set before.
C15_FlagsRecomputed ==
    (glast.op = "material_tiling.setter" /\ glast.exc = "")
        => _flags = Grid_init(glast.args).st.flags

C15_Witness ==
    /\ glast.op = "material_tiling.setter"
    /\ glast.exc = ""
    /\ ~AssignedNone
    /\ glast.before.flags.h # AllMaterial
    /\ \E q \in Indices(<<Nx, Ny>>) :
          glast.before.flags.h.data[q] > _flags.h.data[q]
    /\ _flags = Grid_init(glast.args).st.flags

\* C16: between Grid operations no mask buffer is allocated, also after a
\* setter call that ended with a kernel launch failure, and a setter call
\* allocates a buffer only when none is held.
C16_NoBufferOutsideSetter ==
    /\ _mt = <<>>
    /\ ~__have_material_tiling
    /\ (glast.op = "material_tiling.setter" /\ glast.before.mt # <<>>)
          => \A i \in 1..Len(trace) :
                trace[i] = "alloc" => \E j \in 1..(i - 1) : trace[j] = "free"

\* C17: __free_mt without a buffer changes nothing and does not fail, a
\* second __free_mt is the same as one, __del__ after a completed setter
\* frees nothing more, and no operation frees more buffers than it held
\* or allocated.
C17_FreeIdempotent ==
    /\ __free_mt(__free_mt(GNow)) = __free_mt(GNow)
    /\ _mt = <<>> => __free_mt(GNow) = GNow
    /\ glast.op = "__del__"
          => /\ glast.exc = ""
             /\ _mt = <<>>
             /\ ~__have_material_tiling
             /\ _flags = glast.before.flags
             /\ trace = IF glast.before.mt = <<>> THEN <<>> ELSE <<"free">>
    /\ Cardinality({i \in 1..Len(trace) : trace[i] = "free"})
          <= Cardinality({i \in 1..Len(trace) : trace[i] = "alloc"})
             + (IF glast.before.mt = <<>> THEN 0 ELSE 1)

C17_Witness ==
    /\ glast.op = "__del__"
    /\ glast.exc = ""
    /\ glast.before.mt = <<>>
    /\ glast.before.flags.h # AllMaterial
    /\ trace = <<>>
    /\ GNow = glast.before

\* C19: as long as no kernel launch has failed, the mask buffer is absent
\* between Grid operations, and _get_material_tiling_at_nodes then returns
\* nothing: it fails with the AttributeError of dereferencing None.
C19_NodeQueryFailsOnAbsentBuffer ==
    ~launch_failed
        => /\ _mt = <<>>
           /\ glast.op = "_get_material_tiling_at_nodes"
                 => /\ glast.exc = "AttributeError"
                    /\ glast.value = <<>>

C19_Witness ==
    /\ glast.op = "_get_material_tiling_at_nodes"
    /\ ~launch_failed
    /\ glast.before.flags.h # AllMaterial
    /\ glast.exc = "AttributeError"

\* C11: each of the four lattices has as many coordinates along an axis as
\* the configured count (Nx/Ny, Nxa/Nya, Nxb/Nyb, Nxc/Nyc); they run from 0
\* to Lx (Ly) on a node-aligned axis and from dx/2 to Lx - dx/2 (dy/2 to
\* Ly - dy/2) on an offset axis.
C11_Aligned(x, num, L) ==
    /\ Len(x) = num
    /\ x[1] = 0
    /\ x[Len(x)] = L

C11_Offset(x, num, L, d) ==
    /\ Len(x) = num
    /\ 2 * x[1] = d
    /\ 2 * x[Len(x)] = 2 * L - d

C11_LatticeCountsAndEnds ==
    LET c == glast.args
        v == glast.value[1]
    IN  /\ glast.op = "xy" => /\ C11_Aligned(v[1], c.Nx, c.Lx)
                              /\ C11_Aligned(v[2], c.Ny, c.Ly)
        /\ glast.op = "xy_a" => /\ C11_Offset(v[1], c.Nxa, c.Lx, c.dx)
                                /\ C11_Aligned(v[2], c.Nya, c.Ly)
        /\ glast.op = "xy_b" => /\ C11_Aligned(v[1], c.Nxb, c.Lx)
                                /\ C11_Offset(v[2], c.Nyb, c.Ly, c.dy)
        /\ glast.op = "xy_c" => /\ C11_Offset(v[1], c.Nxc, c.Lx, c.dx)
                                /\ C11_Offset(v[2], c.Nyc, c.Ly, c.dy)

C11_Witness ==
    /\ glast.op = "xy_a"
    /\ glast.args = Config(4, 3, 2, 4)
    /\ glast.value[1] = << <<1, 3, 5>>, <<0, 4, 8>> >>

=============================================================================
